---------------------------- MODULE Spec2Model ----------------------------
(***************************************************************************)
(* harsearch: a command line search through HTTP Archive (HAR) files.      *)
(*                                                                         *)
(* The model follows src/harsearch/__main__.py.  One run of main() is a    *)
(* state machine over the program points of main, HARSearch.__init__,      *)
(* load_har_file, search_entries, search_in_text and print_results.        *)
(*                                                                         *)
(* Text is a sequence of characters, a character being a one-element       *)
(* string.  Offsets are Python's: 0-based, half-open.  Two characters      *)
(* stand for code points outside ASCII:                                    *)
(*   "Idot"  U+0130 LATIN CAPITAL LETTER I WITH DOT ABOVE                  *)
(*   "cdot"  U+0307 COMBINING DOT ABOVE                                    *)
(* U+0130 is the one code point whose str.lower() is two code points long  *)
(* ("i" followed by U+0307).                                               *)
(***************************************************************************)
EXTENDS Integers, Sequences, FiniteSets, TLC

\* ------------------------------------------------------------- bounds
MaxTextLen == 3
MaxPatLen == 2
MaxContext == 1
MaxEntries == 2
MaxMatches == 5

\* -n/--context default (argparse)
DefaultContext == 50

\* ------------------------------------------------------- Python helpers
Min(S) == CHOOSE x \in S : \A y \in S : x <= y

PyMax(a, b) == IF a >= b THEN a ELSE b

PyMin(a, b) == IF a <= b THEN a ELSE b

\* s[lo:hi] with Python's treatment of negative and out-of-range indices
PySlice(s, lo, hi) ==
    LET n == Len(s)
        norm(i) == IF i < 0 THEN PyMax(i + n, 0) ELSE PyMin(i, n)
        a == norm(lo)
        b == norm(hi)
    IN  IF a >= b THEN << >> ELSE SubSeq(s, a + 1, b)

\* s[lo:]
PySliceFrom(s, lo) == PySlice(s, lo, Len(s))

\* s[:hi]
PySliceTo(s, hi) == PySlice(s, 0, hi)

\* str.lower() of one character: U+0130 lowers to two code points
LowerChar(c) ==
    CASE c = "A" -> << "a" >>
      [] c = "Idot" -> << "i", "cdot" >>
      [] OTHER -> << c >>

RECURSIVE Lower(_)
\* str.lower()
Lower(s) == IF s = << >> THEN << >> ELSE LowerChar(Head(s)) \o Lower(Tail(s))

\* str.find(sub, start): lowest index >= start where sub occurs, else -1
Find(s, sub, start) ==
    LET c == { k \in start..(Len(s) - Len(sub)) : SubSeq(s, k + 1, k + Len(sub)) = sub }
    IN  IF c = {} THEN -1 ELSE Min(c)

\* re.IGNORECASE: the case-insensitive class of a character
RegexFold(c) ==
    CASE c = "A" -> "a"
      [] c = "Idot" -> "i"
      [] OTHER -> c

\* re.compile: a pattern of literal characters and "."; "(" opens a group
\* that nothing closes, which is re.error
Compiles(p) == \A j \in 1..Len(p) : p[j] # "("

AtomMatches(a, c) == IF a = "." THEN c # "\n" ELSE RegexFold(a) = RegexFold(c)

MatchAt(s, p, k) ==
    /\ k + Len(p) <= Len(s)
    /\ \A j \in 1..Len(p) : AtomMatches(p[j], s[k + j])

\* regex.search(s, from): start of the leftmost match at or after from, else -1
RegexSearch(s, p, from) ==
    LET c == { k \in from..Len(s) : MatchAt(s, p, k) }
    IN  IF c = {} THEN -1 ELSE Min(c)

\* "\n".join(parts)
RECURSIVE JoinLines(_)
JoinLines(parts) ==
    IF parts = << >> THEN << >>
    ELSE IF Len(parts) = 1 THEN parts[1]
    ELSE parts[1] \o << "\n" >> \o JoinLines(Tail(parts))

\* ------------------------------------------------------------ JSON values
Null == [t |-> "null", v |-> << >>]
Absent == [t |-> "absent", v |-> << >>]
Val(x) == [t |-> "val", v |-> x]

\* the top-level object and its log object
Doc(log) == [ log |-> log ]

Log(entries) == [ entries |-> entries ]

\* har_data before load_har_file has returned
NotLoaded == Doc([ t |-> "unloaded", v |-> << >> ])


\* ----------------------------------------------------------------- state
VARIABLES
    pc,             \* program point of the run
    exit_code,      \* process exit status, -1 while running
    file_opened,    \* open(self.har_file) has been called
    stdout,         \* what has been printed, in order
    exc,            \* uncaught exception that ended the run, "none" otherwise
    colorama,       \* import colorama succeeded
    search_type,    \* args.search_type / self.search_type
    field,          \* args.field / self.field
    is_regex,       \* args.regex / self.is_regex
    pattern,        \* args.pattern / self.pattern
    context_chars,  \* args.context / self.context_chars
    har_data,       \* search_entries: the parsed document
    idx,            \* search_entries: entries consumed by the for loop
    all_matches,    \* search_entries: all_matches
    caller,         \* who called search_in_text: "main" run or a direct "unit" call
    search_text,    \* search_in_text: search_text
    url,            \* search_in_text: url
    start_pos,      \* search_in_text: start_pos (literal), finditer position (regex)
    matches,        \* search_in_text: matches
    loc,            \* search_in_text: locals of the latest loop iteration
    spans           \* history: entry index, start and end of every match emitted

vars == << pc, exit_code, file_opened, stdout, exc, colorama, search_type, field,
           is_regex, pattern, context_chars, har_data, idx, all_matches, caller,
           search_text, url, start_pos, matches, loc, spans >>

argVars == << colorama, search_type, field, is_regex, pattern, context_chars >>

scanVars == << search_text, url, start_pos, matches, loc, spans >>

\* ------------------------------------------------------------ colour markers
GREEN == IF colorama THEN << "GREEN" >> ELSE << >>

BLUE == IF colorama THEN << "BLUE" >> ELSE << >>

RESET == IF colorama THEN << "RESET" >> ELSE << >>

\* ------------------------------------------------------------ search_in_text
\* search_text = text if text else ""
SearchText(text) == IF text.t = "val" THEN text.v ELSE << >>

ContextStart(start, n) == PyMax(0, start - n)

ContextEnd(len, end, n) == PyMin(len, end + n)

Highlight(context, start, end, context_start, matched) ==
    PySliceTo(context, start - context_start)
        \o BLUE \o matched \o RESET
        \o PySliceFrom(context, end - context_start)

\* f"{GREEN}URL: {url}{RESET}\n{highlighted}"
Rendered(u, highlighted) ==
    GREEN \o << "URL: " >> \o u \o RESET \o << "\n" >> \o highlighted

\* the body of one loop iteration for the span (start, end)
Iteration(text, start, end, n) ==
    LET context_start == ContextStart(start, n)
        context_end == ContextEnd(Len(text), end, n)
        context == PySlice(text, context_start, context_end)
        matched == PySlice(text, start, end)
    IN  [ valid |-> TRUE, start |-> start, end |-> end,
          context_start |-> context_start, context_end |-> context_end,
          context |-> context, matched |-> matched,
          highlighted |-> Highlight(context, start, end, context_start, matched) ]

NoLoc ==
    [ valid |-> FALSE, start |-> 0, end |-> 0, context_start |-> 0,
      context_end |-> 0, context |-> << >>, matched |-> << >>,
      highlighted |-> << >> ]

\* pos = search_text.lower().find(self.pattern.lower(), start_pos)
LiteralPos(text, pat, from) == Find(Lower(text), Lower(pat), from)

\* where finditer resumes after a match: past an empty match by one
RegexResume(start, end) == IF end = start THEN end + 1 ELSE end

\* entry of search_in_text(text, url), up to the loop head
CallSearchInText(text, u) ==
    /\ search_text' = SearchText(text)
    /\ url' = u
    /\ start_pos' = 0
    /\ matches' = << >>
    /\ loc' = NoLoc
    /\ pc' = IF is_regex THEN "re_loop" ELSE "lit_loop"
    /\ UNCHANGED spans

\* ReturnMatches putting the entry's matches in front of the earlier ones
ReturnMatchesInFront ==
    IF caller = "main"
    THEN /\ all_matches' = matches \o all_matches
         /\ idx' = idx + 1
         /\ pc' = "loop"
    ELSE /\ pc' = "returned"
         /\ UNCHANGED << all_matches, idx >>

\* return matches: back in search_entries, all_matches.extend(...)
ReturnMatches ==
    IF caller = "main"
    THEN /\ all_matches' = all_matches \o matches
         /\ idx' = idx + 1
         /\ pc' = "loop"
    ELSE /\ pc' = "returned"
         /\ UNCHANGED << all_matches, idx >>

Emit(it) ==
    /\ loc' = it
    /\ matches' = Append(matches, Rendered(url, it.highlighted))
    /\ spans' = Append(spans, [ entry |-> idx, start |-> it.start, end |-> it.end,
                                 rendered |-> Rendered(url, it.highlighted) ])

\* one pass of the while loop that finds an occurrence; the list of matches
\* is followed up to MaxMatches items
LitIter ==
    /\ pc = "lit_loop"
    /\ Len(matches) < MaxMatches
    /\ LET pos == LiteralPos(search_text, pattern, start_pos)
           end_pos == pos + Len(pattern)
       IN  /\ pos # -1
           /\ Emit(Iteration(search_text, pos, end_pos, context_chars))
           /\ start_pos' = end_pos
    /\ UNCHANGED << pc, exit_code, file_opened, stdout, exc, argVars, har_data,
                    idx, all_matches, caller, search_text, url >>

\* the pass that finds nothing: break, return matches
LitBreak ==
    /\ pc = "lit_loop"
    /\ LiteralPos(search_text, pattern, start_pos) = -1
    /\ ReturnMatches
    /\ UNCHANGED << exit_code, file_opened, stdout, exc, argVars, har_data,
                    caller, scanVars >>

\* one match of self.regex.finditer(search_text)
ReIter ==
    /\ pc = "re_loop"
    /\ LET start == RegexSearch(search_text, pattern, start_pos)
           end == start + Len(pattern)
       IN  /\ start # -1
           /\ Emit(Iteration(search_text, start, end, context_chars))
           /\ start_pos' = RegexResume(start, end)
    /\ UNCHANGED << pc, exit_code, file_opened, stdout, exc, argVars, har_data,
                    idx, all_matches, caller, search_text, url >>

\* finditer is exhausted: return matches
ReEnd ==
    /\ pc = "re_loop"
    /\ RegexSearch(search_text, pattern, start_pos) = -1
    /\ ReturnMatches
    /\ UNCHANGED << exit_code, file_opened, stdout, exc, argVars, har_data,
                    caller, scanVars >>

\* ------------------------------------------- search_in_text called directly
Alphabet == { "a", "A", "i", "Idot", "cdot" }

PatAlphabet == Alphabet \cup { "." }

Strings(S, n) == UNION { [1..k -> S] : k \in 0..n }

Texts == Strings(Alphabet, MaxTextLen)

Patterns == Strings(PatAlphabet, MaxPatLen)

ContextValues == ((0 - MaxContext)..MaxContext)

InitScan ==
    /\ colorama \in BOOLEAN
    /\ search_type = "response"
    /\ field = "text"
    /\ is_regex \in BOOLEAN
    /\ pattern \in Patterns
    /\ is_regex => Compiles(pattern)
    /\ context_chars \in ContextValues
    /\ \E text \in { Null } \cup { Val(t) : t \in Texts } :
          search_text = SearchText(text)
    /\ url = << "u" >>
    /\ start_pos = 0
    /\ matches = << >>
    /\ loc = NoLoc
    /\ spans = << >>
    /\ pc = IF is_regex THEN "re_loop" ELSE "lit_loop"
    /\ caller = "unit"
    /\ exit_code = -1
    /\ file_opened = FALSE
    /\ stdout = << >>
    /\ exc = "none"
    /\ har_data = NotLoaded
    /\ idx = 0
    /\ all_matches = << >>

NextScan == LitIter \/ LitBreak \/ ReIter \/ ReEnd

SpecScan == InitScan /\ [][NextScan]_vars


\* ------------------------------------------------------------ the HAR file
HdrA == [ name |-> << "a" >>, value |-> << "A" >> ]

SideFull ==
    [ headers |-> Val(<< HdrA >>),
      content |-> Val([ text |-> Val(<< "a", "A" >>) ]) ]

SideEmpty == [ headers |-> Absent, content |-> Absent ]

SideNullContent == [ headers |-> Val(<< >>), content |-> Null ]

SideNullText == [ headers |-> Absent, content |-> Val([ text |-> Null ]) ]

SideNoText == [ headers |-> Val(<< HdrA, HdrA >>), content |-> Val([ text |-> Absent ]) ]

SideNullHeaders == [ headers |-> Null, content |-> Val([ text |-> Val(<< "A" >>) ]) ]

EntrySet ==
    { [ url |-> << "a" >>, request |-> SideFull, response |-> SideEmpty ],
      [ url |-> << "A" >>, request |-> SideEmpty, response |-> SideFull ],
      [ url |-> << "i" >>, request |-> SideNullContent, response |-> SideNullText ],
      [ url |-> << "a" >>, request |-> SideNullText, response |-> SideNullContent ],
      [ url |-> << "i" >>, request |-> SideFull, response |-> SideFull ],
      [ url |-> << "A" >>, request |-> SideNoText, response |-> SideNullHeaders ] }

\* what open() and json.load() can meet at the path
Files ==
    { [ kind |-> "missing", doc |-> Doc(Absent) ],
      [ kind |-> "badjson", doc |-> Doc(Absent) ],
      [ kind |-> "json", doc |-> Doc(Absent) ],
      [ kind |-> "json", doc |-> Doc(Val(Log(Absent))) ] }
    \cup { [ kind |-> "json", doc |-> Doc(Val(Log(Val(es)))) ] :
             es \in Strings(EntrySet, MaxEntries) }

Entries == har_data.log.v.entries.v

\* ------------------------------------------------------------------ output
Line(msg) == << msg >>

Separator == << "\n", "-" , "x80", "\n" >>

RECURSIVE PrintResults(_)
\* print_results: every match, a separator between two, none after the last
PrintResults(ms) ==
    IF ms = << >> THEN << >>
    ELSE IF Len(ms) = 1 THEN << ms[1] >>
    ELSE << ms[1], Separator >> \o PrintResults(Tail(ms))

\* print(msg); sys.exit(1)
ExitWith(msg) ==
    /\ stdout' = Append(stdout, Line(msg))
    /\ exit_code' = 1
    /\ pc' = "exit"

\* an exception nothing catches: traceback on stderr, exit status 1
Crash(e) ==
    /\ exc' = e
    /\ exit_code' = 1
    /\ pc' = "exit"

\* -------------------------------------------------------------------- main
MainPatterns == { << >>, << "a" >>, << "(" >> }

\* parser.parse_args(): -n takes any int, and is 50 when not given
ContextArgs == ContextValues \cup { DefaultContext }

Init ==
    /\ colorama \in BOOLEAN
    /\ search_type \in { "none", "request", "response" }
    /\ field \in { "none", "url", "headers", "text" }
    /\ is_regex \in BOOLEAN
    /\ pattern \in MainPatterns
    /\ context_chars \in ContextArgs
    /\ pc = "validate"
    /\ caller = "main"
    /\ exit_code = -1
    /\ file_opened = FALSE
    /\ stdout = << >>
    /\ exc = "none"
    /\ har_data = NotLoaded
    /\ idx = 0
    /\ all_matches = << >>
    /\ search_text = << >>
    /\ url = << >>
    /\ start_pos = 0
    /\ matches = << >>
    /\ loc = NoLoc
    /\ spans = << >>

\* ValidateArgs without the check of -url against the direction
ValidateArgsUrlAnyDirection ==
    /\ pc = "validate"
    /\ IF search_type = "none"
       THEN ExitWith("Error: You must specify either -req or -res")
       ELSE IF field = "none"
       THEN ExitWith("Error: You must specify one of -url, -headers, or -text")
       ELSE /\ pc' = "construct"
            /\ UNCHANGED << stdout, exit_code >>
    /\ UNCHANGED << file_opened, exc, argVars, har_data, idx, all_matches,
                    caller, scanVars >>

\* main: "Validate arguments"
ValidateArgs ==
    /\ pc = "validate"
    /\ IF search_type = "none"
       THEN ExitWith("Error: You must specify either -req or -res")
       ELSE IF field = "none"
       THEN ExitWith("Error: You must specify one of -url, -headers, or -text")
       ELSE IF field = "url" /\ search_type # "request"
       THEN ExitWith("Error: -url can only be used with -req")
       ELSE /\ pc' = "construct"
            /\ UNCHANGED << stdout, exit_code >>
    /\ UNCHANGED << file_opened, exc, argVars, har_data, idx, all_matches,
                    caller, scanVars >>

\* Construct with the compilation put off to the first use of the regex
ConstructLazyCompile ==
    /\ pc = "construct"
    /\ pc' = "search_entries"
    /\ UNCHANGED << stdout, exit_code, file_opened, exc, argVars, har_data, idx,
                    all_matches, caller, scanVars >>

\* HARSearch.__init__: compile the regex
Construct ==
    /\ pc = "construct"
    /\ IF is_regex /\ ~Compiles(pattern)
       THEN ExitWith("Invalid regular expression")
       ELSE /\ pc' = "search_entries"
            /\ UNCHANGED << stdout, exit_code >>
    /\ UNCHANGED << file_opened, exc, argVars, har_data, idx, all_matches,
                    caller, scanVars >>

\* search_entries: har_data = self.load_har_file(); all_matches = []
LoadHarFile ==
    /\ pc = "search_entries"
    /\ file_opened' = TRUE
    /\ \E file \in Files :
          CASE file.kind = "missing" ->
                 /\ ExitWith("Error: File not found.")
                 /\ UNCHANGED har_data
            [] file.kind = "badjson" ->
                 /\ ExitWith("Error: not a valid JSON file.")
                 /\ UNCHANGED har_data
            [] OTHER ->
                 /\ har_data' = file.doc
                 /\ pc' = "check"
                 /\ UNCHANGED << stdout, exit_code >>
    /\ all_matches' = << >>
    /\ UNCHANGED << exc, argVars, idx, caller, scanVars >>

\* "log" not in har_data or "entries" not in har_data["log"]
SchemaMissing(doc) ==
    \/ doc.log.t = "absent"
    \/ doc.log.v.entries.t = "absent"

\* search_entries: the format check; on failure print and return []
CheckSchema ==
    /\ pc = "check"
    /\ IF SchemaMissing(har_data)
       THEN /\ stdout' = Append(stdout,
                   Line("Error: Invalid HAR file format - missing log or entries."))
            /\ all_matches' = << >>
            /\ pc' = "report"
       ELSE /\ pc' = "loop"
            /\ UNCHANGED << stdout, all_matches >>
    /\ idx' = 0
    /\ UNCHANGED << exit_code, file_opened, exc, argVars, har_data, caller,
                    scanVars >>

\* url = entry["request"]["url"]; the entry record keeps it beside the two sides
RequestUrl(entry) == entry.url

\* the URL test: regex.search(url), or pattern.lower() in url.lower()
UrlMatches(u) ==
    IF is_regex
    THEN RegexSearch(u, pattern, 0) # -1
    ELSE Find(Lower(u), Lower(pattern), 0) # -1

\* f"{GREEN}URL: {url}{RESET}\n{BLUE}{url}{RESET}"
RenderedUrl(u) ==
    GREEN \o << "URL: " >> \o u \o RESET \o << "\n" >> \o BLUE \o u \o RESET

\* loop body, field url
EntryUrl ==
    /\ pc = "loop"
    /\ idx < Len(Entries)
    /\ field = "url" /\ search_type = "request"
    /\ LET u == RequestUrl(Entries[idx + 1])
       IN  IF UrlMatches(u)
           THEN /\ all_matches' = Append(all_matches, RenderedUrl(u))
                /\ spans' = Append(spans, [ entry |-> idx, start |-> 0,
                                            end |-> Len(u),
                                            rendered |-> RenderedUrl(u) ])
           ELSE UNCHANGED << all_matches, spans >>
    /\ idx' = idx + 1
    /\ UNCHANGED << pc, exit_code, file_opened, stdout, exc, argVars, har_data,
                    caller, search_text, url, start_pos, matches, loc >>

\* target = entry[self.search_type]
Target(entry) == IF search_type = "request" THEN entry.request ELSE entry.response

\* f"{h['name']}: {h['value']}" for each header
HeaderLines(hs) == [ k \in 1..Len(hs) |-> hs[k].name \o << ":", " " >> \o hs[k].value ]

\* loop body, field headers, up to the loop head of search_in_text
EntryHeaders ==
    /\ pc = "loop"
    /\ idx < Len(Entries)
    /\ ~(field = "url" /\ search_type = "request")
    /\ field = "headers"
    /\ LET entry == Entries[idx + 1]
           got == Target(entry).headers
           headers == IF got.t = "absent" THEN Val(<< >>) ELSE got
       IN  IF headers.t = "null"
           THEN /\ Crash("TypeError")
                /\ UNCHANGED scanVars
           ELSE /\ CallSearchInText(Val(JoinLines(HeaderLines(headers.v))),
                                    RequestUrl(entry))
                /\ UNCHANGED << exc, exit_code >>
    /\ UNCHANGED << file_opened, stdout, argVars, har_data, idx, all_matches,
                    caller >>

\* target.get("content", {}).get("text", "")
ContentText(target) ==
    LET content == IF target.content.t = "absent"
                   THEN Val([ text |-> Absent ])
                   ELSE target.content
    IN  IF content.t = "null" THEN [ t |-> "raise", v |-> << >> ]
        ELSE IF content.v.text.t = "absent" THEN Val(<< >>)
        ELSE content.v.text

\* loop body, field text, up to the loop head of search_in_text
EntryText ==
    /\ pc = "loop"
    /\ idx < Len(Entries)
    /\ ~(field = "url" /\ search_type = "request")
    /\ field = "text"
    /\ LET entry == Entries[idx + 1]
           content == ContentText(Target(entry))
       IN  IF content.t = "raise"
           THEN /\ Crash("AttributeError")
                /\ UNCHANGED scanVars
           ELSE /\ CallSearchInText(content, RequestUrl(entry))
                /\ UNCHANGED << exc, exit_code >>
    /\ UNCHANGED << file_opened, stdout, argVars, har_data, idx, all_matches,
                    caller >>

\* the for loop is over: return all_matches
LoopEnd ==
    /\ pc = "loop"
    /\ idx = Len(Entries)
    /\ pc' = "report"
    /\ UNCHANGED << exit_code, file_opened, stdout, exc, argVars, har_data, idx,
                    all_matches, caller, scanVars >>

\* main: print the outcome and fall off the end, exit status 0
Report ==
    /\ pc = "report"
    /\ stdout' = IF all_matches = << >>
                 THEN Append(stdout, Line("No matches found."))
                 ELSE stdout \o PrintResults(all_matches)
    /\ exit_code' = 0
    /\ pc' = "exit"
    /\ UNCHANGED << file_opened, exc, argVars, har_data, idx, all_matches,
                    caller, scanVars >>

Next ==
    \/ ValidateArgs
    \/ Construct
    \/ LoadHarFile
    \/ CheckSchema
    \/ EntryUrl
    \/ EntryHeaders
    \/ EntryText
    \/ LitIter
    \/ LitBreak
    \/ ReIter
    \/ ReEnd
    \/ LoopEnd
    \/ Report

Spec == Init /\ [][Next]_vars


\* ==================================================================== claims

\* ---- reference notions used by the claims
\* case-insensitive equality of two characters, one character at a time
SameLetter(c, d) == c = d \/ (c \in { "a", "A" } /\ d \in { "a", "A" })

\* P occurs in T at 0-based offset k, ignoring case
OccursAt(T, P, k) ==
    /\ k >= 0
    /\ k + Len(P) <= Len(T)
    /\ \A j \in 1..Len(P) : SameLetter(T[k + j], P[j])

RECURSIVE Occurrences(_, _, _)
\* the non-overlapping, leftmost-first occurrences of a non-empty P in T from offset from
Occurrences(T, P, from) ==
    LET c == { k \in from..Len(T) : OccursAt(T, P, k) }
    IN  IF c = {} THEN << >>
        ELSE << Min(c) >> \o Occurrences(T, P, Min(c) + Len(P))

\* the characters of T at the offsets k with a <= k < b
Sub(T, a, b) ==
    LET ks == { k \in a..(b - 1) : 0 <= k /\ k < Len(T) }
    IN  [ j \in 1..Cardinality(ks) |-> T[Min(ks) + j] ]

IsMarker(c) == c \in { "BLUE", "RESET" }

\* a snippet line with its highlight markers removed
StripMarkers(h) == LET keep(c) == ~IsMarker(c) IN SelectSeq(h, keep)

\* what stands between the BLUE marker and the RESET marker after it
Enclosed(h) ==
    LET b == CHOOSE k \in 1..Len(h) : h[k] = "BLUE"
        r == CHOOSE k \in 1..Len(h) : k > b /\ h[k] = "RESET"
    IN  SubSeq(h, b + 1, r - 1)

InScan == pc \in { "lit_loop", "re_loop" }

\* C1: in literal mode with a non-empty pattern P, the matches returned for a
\* text T are exactly the non-overlapping leftmost-first case-insensitive
\* occurrences of P in T, each covering len(P) characters of T where it occurs.
\* Stated for the runs with contextChars >= 0.
C1_LiteralMatchesAreOccurrences ==
    (pc = "returned" /\ ~is_regex /\ pattern # << >> /\ context_chars >= 0) =>
        /\ Len(matches) = Len(Occurrences(search_text, pattern, 0))
        /\ \A k \in 1..Len(spans) :
              /\ spans[k].end - spans[k].start = Len(pattern)
              /\ OccursAt(search_text, pattern, spans[k].start)
              /\ Len(Sub(search_text, spans[k].start, spans[k].end)) = Len(pattern)

\* C2: a literal scan with the empty pattern does not hang: the scan is never
\* reached with it (rejected upstream), or its loop leaves at the first pass
\* with zero matches.
C2_EmptyPatternScanTerminates ==
    [][(pc = "lit_loop" /\ pattern = << >> /\ context_chars >= 0) =>
            (pc' # "lit_loop" /\ matches' = << >>)]_vars

\* C3: a file that parses as JSON but lacks log or log.entries ends the run
\* with exit code 1, never 0.
C3_SchemaErrorExitsOne ==
    (pc = "exit" /\ har_data.log.t # "unloaded" /\ SchemaMissing(har_data)) =>
        (exit_code = 1 /\ exit_code # 0)

\* C4: with contextChars = n >= 0, every match span [start, end) of a text T
\* has a window with 0 <= contextStart <= start, end <= contextEnd <= len(T),
\* start - contextStart <= n and contextEnd - end <= n.
C4_ContextWindowBounded ==
    (loc.valid /\ context_chars >= 0) =>
        /\ 0 <= loc.context_start
        /\ loc.context_start <= loc.start
        /\ loc.end <= loc.context_end
        /\ loc.context_end <= Len(search_text)
        /\ loc.start - loc.context_start <= context_chars
        /\ loc.context_end - loc.end <= context_chars

\* C5: the markers of a rendered match enclose exactly T[start:end], and the
\* snippet line without its markers is exactly T[contextStart:contextEnd]
\* (read as the characters at those offsets, or as Python's slice).  Stated
\* for the non-empty patterns.
C5_RenderRoundTrip ==
    (loc.valid /\ pattern # << >>) =>
        /\ \/ StripMarkers(loc.highlighted)
                 = Sub(search_text, loc.context_start, loc.context_end)
           \/ StripMarkers(loc.highlighted)
                 = PySlice(search_text, loc.context_start, loc.context_end)
        /\ colorama => Enclosed(loc.highlighted) = Sub(search_text, loc.start, loc.end)

\* C6: the scan of an entry's field never runs with a negative contextChars.
C6_ContextNonNegative == InScan => context_chars >= 0

\* C7: with -url and -res the run ends with exit code 1 and the HAR file is
\* never opened: the run never gets past the argument validation.
C7_UrlWithResRejectedBeforeIO ==
    (field = "url" /\ search_type = "response") =>
        /\ ~file_opened
        /\ pc \in { "validate", "exit" }
        /\ pc = "exit" => exit_code = 1

C7_Witness ==
    /\ field = "url" /\ search_type = "response"
    /\ pc = "exit" /\ exit_code = 1
    /\ stdout = << Line("Error: -url can only be used with -req") >>

\* the selected side of the entry the loop is at
CurrentSide == Target(Entries[idx + 1])

BodyMissing(side) ==
    \/ side.content.t \in { "absent", "null" }
    \/ side.content.v.text.t \in { "absent", "null" }

\* C8: an entry whose headers array is absent, or whose content or
\* content.text is absent or null, is no error: its text is empty and the
\* scan goes on.
C8_MissingOptionalFieldsAreEmpty ==
    /\ (pc = "exit" /\ exc # "none" /\ context_chars >= 0) =>
          /\ field = "headers" => CurrentSide.headers.t # "absent"
          /\ field = "text" => ~BodyMissing(CurrentSide)
    /\ (InScan /\ caller = "main" /\ field = "headers"
            /\ CurrentSide.headers.t = "absent") => search_text = << >>
    /\ (InScan /\ caller = "main" /\ field = "text" /\ BodyMissing(CurrentSide))
          => search_text = << >>

InvalidRegexLines ==
    LET bad(l) == l = Line("Invalid regular expression") IN SelectSeq(stdout, bad)

ArgsValid ==
    /\ search_type # "none"
    /\ field # "none"
    /\ ~(field = "url" /\ search_type # "request")

\* C9: a regex that does not compile is detected once, at construction: the
\* run reports it and exits with code 1, the file never loaded and no entry
\* scanned.
C9_InvalidRegexFailsAtConstruction ==
    (is_regex /\ ~Compiles(pattern)) =>
        /\ ~file_opened
        /\ har_data = NotLoaded
        /\ spans = << >> /\ matches = << >> /\ all_matches = << >>
        /\ pc \in { "validate", "construct", "exit" }
        /\ pc = "exit" => exit_code = 1
        /\ (pc = "exit" /\ ArgsValid) => Len(InvalidRegexLines) = 1
        /\ Len(InvalidRegexLines) <= 1
        /\ Len(InvalidRegexLines) = 1 => (pc = "exit" /\ ArgsValid)

C9_Witness ==
    /\ is_regex /\ ~Compiles(pattern) /\ ArgsValid
    /\ pc = "exit" /\ exit_code = 1
    /\ stdout = << Line("Invalid regular expression") >>

\* the matches among the printed items
PrintedMatches == LET isMatch(l) == l # Separator IN SelectSeq(stdout, isMatch)

\* C10: the list search_entries returns, and the order print_results prints,
\* is every match emitted, in emission order: entries in file order, and
\* within an entry by increasing start offset; nothing dropped, merged or
\* deduplicated.
C10_MatchesInEntryThenOffsetOrder ==
    (pc = "report" \/ (pc = "exit" /\ exit_code = 0)) =>
        /\ all_matches = [ k \in 1..Len(spans) |-> spans[k].rendered ]
        /\ \A j, k \in 1..Len(spans) :
              j < k => \/ spans[j].entry < spans[k].entry
                       \/ /\ spans[j].entry = spans[k].entry
                          /\ spans[j].start < spans[k].start
        /\ (pc = "exit" /\ all_matches # << >>) => PrintedMatches = all_matches

C10_Witness ==
    /\ pc = "exit" /\ exit_code = 0
    /\ Len(all_matches) >= 3
    /\ \E j, k \in 1..Len(spans) :
          /\ j < k
          /\ spans[j].entry < spans[k].entry
          /\ all_matches[j] = all_matches[k]
    /\ \E j, k \in 1..Len(spans) :
          j < k /\ spans[j].entry = spans[k].entry

=============================================================================
